---------------------------- MODULE Spec2Model ----------------------------
(***************************************************************************)
(* Model of quadsim's cascaded flight controller (src/cascaded.py).        *)
(*                                                                         *)
(* Numbers.  The program computes in IEEE double precision.  The model     *)
(* computes in exact extended rationals: a scalar is a pair <<n, d>> with  *)
(* d >= 0, in lowest terms; <<1, 0>> is +infinity, <<-1, 0>> is -infinity   *)
(* and <<0, 0>> is NaN.  Division by zero, 0/0, inf - inf and 0 * inf give  *)
(* what numpy gives (numpy warns, it does not raise).  The sign of zero is  *)
(* not kept.  Square roots are taken only of rational squares: the inputs   *)
(* are drawn from sets on which every norm the code takes is rational.     *)
(* Angles are represented by their (cos, sin) pair.                        *)
(***************************************************************************)
EXTENDS Integers, Sequences, FiniteSets, TLC

VARIABLES
    ctl,      \* the controller object in use (its class and its attributes)
    ref,      \* the reference trajectory the controller holds (self.ref)
    learner,  \* the Learner collaborator: its kind and its dataset
    call      \* the last call made: its inputs, its events, its outcome

vars == <<ctl, ref, learner, call>>

---------------------------------------------------------------------------
(* Extended rational arithmetic (numpy float64 scalars).                   *)

Abs(i) == IF i < 0 THEN -i ELSE i

Sgn(i) == IF i < 0 THEN -1 ELSE IF i > 0 THEN 1 ELSE 0

RECURSIVE GCD(_, _)
GCD(a, b) == IF b = 0 THEN a ELSE GCD(b, a % b)

Q(n, d) ==
    IF d = 0 THEN <<Sgn(n), 0>>
    ELSE LET g == GCD(Abs(n), Abs(d))
         IN  <<(Sgn(d) * n) \div g, Abs(d) \div g>>

I(n) == <<n, 1>>

Zero == <<0, 1>>

One == <<1, 1>>

NaN == <<0, 0>>

PInf == <<1, 0>>

IsFinite(a) == a[2] # 0

Neg(a) == <<-a[1], a[2]>>

Add(a, b) ==
    IF a[2] = 0 /\ b[2] = 0
    THEN (IF a = b THEN a ELSE NaN)
    ELSE IF a[2] = 0 \/ b[2] = 0 THEN Q(a[1] * b[2] + b[1] * a[2], 0)
    ELSE LET g == GCD(a[2], b[2])
         IN  Q(a[1] * (b[2] \div g) + b[1] * (a[2] \div g), (a[2] \div g) * b[2])

Sub(a, b) == Add(a, Neg(b))

Mul(a, b) ==
    IF a[2] = 0 \/ b[2] = 0 \/ a[1] = 0 \/ b[1] = 0 THEN Q(a[1] * b[1], a[2] * b[2])
    ELSE LET g1 == GCD(Abs(a[1]), b[2])
             g2 == GCD(Abs(b[1]), a[2])
         IN  <<(a[1] \div g1) * (b[1] \div g2), (a[2] \div g2) * (b[2] \div g1)>>

Recip(b) ==
    IF b[1] = 0 THEN (IF b[2] = 0 THEN NaN ELSE PInf)
    ELSE Q(b[2], b[1])

Div(a, b) == Mul(a, Recip(b))

\* The largest k in lo..hi with k * k <= n (lo * lo <= n)
RECURSIVE SqrtSearch(_, _, _)
SqrtSearch(n, lo, hi) ==
    IF lo >= hi THEN lo
    ELSE LET mid == (lo + hi + 1) \div 2
         IN  IF mid * mid <= n THEN SqrtSearch(n, mid, hi)
             ELSE SqrtSearch(n, lo, mid - 1)

\* 46340 is the largest integer whose square TLC's integers hold
ISqrt(n) == SqrtSearch(n, 0, IF n < 46340 THEN n ELSE 46340)

IsSquare(n) == ISqrt(n) * ISqrt(n) = n

\* Whether the model's rationals hold the square root of a.
ExactSqrt(a) ==
    \/ a[2] = 0
    \/ a[1] < 0
    \/ IsSquare(a[1]) /\ IsSquare(a[2])

Sqrt(a) ==
    IF a[2] = 0 THEN (IF a = PInf THEN PInf ELSE NaN)
    ELSE IF a[1] < 0 THEN NaN
    ELSE CASE IsSquare(a[1]) /\ IsSquare(a[2]) -> <<ISqrt(a[1]), ISqrt(a[2])>>

---------------------------------------------------------------------------
(* numpy 3-vectors and 3x3 matrices (a matrix is the tuple of its columns). *)

V(x, y, z) == <<I(x), I(y), I(z)>>

VZero == V(0, 0, 0)

VNaN == <<NaN, NaN, NaN>>

e1 == V(1, 0, 0)

e2 == V(0, 1, 0)

e3 == V(0, 0, 1)

VFinite(v) == \A i \in 1..3 : IsFinite(v[i])

VAdd(u, v) == <<Add(u[1], v[1]), Add(u[2], v[2]), Add(u[3], v[3])>>

VSub(u, v) == <<Sub(u[1], v[1]), Sub(u[2], v[2]), Sub(u[3], v[3])>>

VNeg(v) == <<Neg(v[1]), Neg(v[2]), Neg(v[3])>>

Scale(s, v) == <<Mul(s, v[1]), Mul(s, v[2]), Mul(s, v[3])>>

VDiv(v, s) == <<Div(v[1], s), Div(v[2], s), Div(v[3], s)>>

Dot(u, v) == Add(Add(Mul(u[1], v[1]), Mul(u[2], v[2])), Mul(u[3], v[3]))

Cross(u, v) ==
    << Sub(Mul(u[2], v[3]), Mul(u[3], v[2])),
       Sub(Mul(u[3], v[1]), Mul(u[1], v[3])),
       Sub(Mul(u[1], v[2]), Mul(u[2], v[1])) >>

Norm(v) == Sqrt(Dot(v, v))

ExactNorm(v) == ExactSqrt(Dot(v, v))

\* M.dot(v) for a matrix given by its columns
MatVec(m, v) == VAdd(VAdd(Scale(v[1], m[1]), Scale(v[2], m[2])), Scale(v[3], m[3]))

Transpose(m) ==
    << <<m[1][1], m[2][1], m[3][1]>>,
       <<m[1][2], m[2][2], m[3][2]>>,
       <<m[1][3], m[2][3], m[3][3]>> >>

Diag(a, b, c) == << <<I(a), Zero, Zero>>, <<Zero, I(b), Zero>>, <<Zero, Zero, I(c)>> >>

MZero == Diag(0, 0, 0)

MNaN == <<VNaN, VNaN, VNaN>>

MFinite(m) == \A j \in 1..3 : VFinite(m[j])

Det(m) == Dot(m[1], Cross(m[2], m[3]))

\* python_utils.mathu.normalized
normalized(v) == VDiv(v, Norm(v))


---------------------------------------------------------------------------
(* scipy.spatial.transform.Rotation, held as its rotation matrix.           *)

\* R.from_matrix: the rotation whose matrix is m.  Every entry of m enters
\* the quaternion scipy builds, so one non-finite entry makes the whole
\* rotation non-finite.
from_matrix(m) == IF MFinite(m) THEN m ELSE MNaN

\* rot.apply(v)
RotApply(rot, v) == MatVec(rot, v)

\* rot.inv()
RotInv(rot) == Transpose(rot)

RotIdentity == <<e1, e2, e3>>

---------------------------------------------------------------------------
(* Outcomes of a Python call: a returned value or a raised exception.       *)

Ret(v) == [ok |-> TRUE, val |-> v, exc |-> "none"]

Raise(e) == [ok |-> FALSE, val |-> "none", exc |-> e]

---------------------------------------------------------------------------
(* Thrust policies, src/cascaded.py:12-21                                   *)

thrust_project_z(accel_des, rot) ==
    LET z_b == RotApply(rot, e3)
    IN  Ret(Dot(accel_des, z_b))

thrust_norm_accel(accel_des, rot) == Ret(Norm(accel_des))

\* Line 20 reads the name z_w, which the module neither defines nor imports
\* (line 7 imports e1, e2, e3 and normalized only): the call raises NameError
\* before line 21 is reached.
thrust_maintain_z(accel_des, rot) == Raise("NameError")

\* The names under which a controller holds its thrust policy u_f
ThrustPolicies == {"thrust_project_z", "thrust_norm_accel", "thrust_maintain_z"}

\* self.u_f(accel_des, rot)
u_f(policy, accel_des, rot) ==
    CASE policy = "thrust_project_z" -> thrust_project_z(accel_des, rot)
      [] policy = "thrust_norm_accel" -> thrust_norm_accel(accel_des, rot)
      [] policy = "thrust_maintain_z" -> thrust_maintain_z(accel_des, rot)

---------------------------------------------------------------------------
(* Desired rotation from thrust direction and yaw, src/cascaded.py:23-41    *)
(* A yaw angle is the record [c |-> cos yaw, s |-> sin yaw].                *)

YawRefZYX(yaw) == <<Neg(yaw.s), yaw.c, Zero>>

YawRefZXY(yaw) == <<yaw.c, yaw.s, Zero>>

\* rot_from_z_yaw_zyx with the operands of line 29 exchanged
rot_from_z_yaw_zyx_lefthanded(z, yaw) ==
    LET zn  == normalized(z)
        y_c == YawRefZYX(yaw)
        x_b == normalized(Cross(y_c, zn))
        y_b == Cross(x_b, zn)
    IN  from_matrix(<<x_b, y_b, zn>>)

rot_from_z_yaw_zyx(z, yaw) ==
    LET zn  == normalized(z)
        y_c == YawRefZYX(yaw)
        x_b == normalized(Cross(y_c, zn))
        y_b == Cross(zn, x_b)
    IN  from_matrix(<<x_b, y_b, zn>>)

rot_from_z_yaw_zxy(z, yaw) ==
    LET zn  == normalized(z)
        x_c == YawRefZXY(yaw)
        y_b == normalized(Cross(zn, x_c))
        x_b == Cross(y_b, zn)
    IN  from_matrix(<<x_b, y_b, zn>>)


---------------------------------------------------------------------------
---------------------------------------------------------------------------
(* Collaborators whose code is outside src/, modelled at their interface.   *)

\* A local variable no line has assigned yet
Unset == "unset"

MatMul(a, b) == <<MatVec(a, b[1]), MatVec(a, b[2]), MatVec(a, b[3])>>

\* The pluggable rotation metric: (current rotation, desired rotation) ->
\* 3-vector error, zero when the two are aligned.  Modelled by the vee of the
\* skew part of rot_des^T rot.
rot_metric(name, rot, rot_des) ==
    LET E == MatMul(Transpose(rot_des), rot)
    IN  << Mul(Q(1, 2), Sub(E[2][3], E[3][2])),
           Mul(Q(1, 2), Sub(E[3][1], E[1][3])),
           Mul(Q(1, 2), Sub(E[1][2], E[2][1])) >>

\* quadsim.control.torque_from_aa: tau = I alpha + omega x (I omega)
torque_from_aa(angaccel, inertia, ang) ==
    VAdd(MatVec(inertia, angaccel), Cross(ang, MatVec(inertia, ang)))

\* Controller.out: packages the command
out(bodyz_force, torque) == [thrust |-> bodyz_force, torque |-> torque]

\* quadsim.flatness.get_xdot_xddot: first and second time derivative of the
\* body x axis x = normalize(y_c x z), y_c the ZYX yaw-reference axis, given
\* the yaw rate and acceleration and the derivatives of z.  The function is
\* a straight line of assignments; f is the record of its local variables,
\* and each operator below is one assignment.
xd_frame(yawvel, yawacc, x, z, zdot, zddot) ==
    [ yawvel |-> yawvel, yawacc |-> yawacc, x |-> x, z |-> z, zdot |-> zdot,
      zddot |-> zddot, h |-> Unset, sg |-> Unset, x_c |-> Unset, y_c |-> Unset,
      y_cd |-> Unset, y_cdd |-> Unset, n |-> Unset, xtd |-> Unset,
      xtdd |-> Unset, nd |-> Unset, xdot |-> Unset, ndd |-> Unset,
      xddot |-> Unset ]

xd_h(f) == [f EXCEPT !.h = Sqrt(Add(Mul(f.x[1], f.x[1]), Mul(f.x[2], f.x[2])))]

xd_sg(f) == [f EXCEPT !.sg = IF IsFinite(f.z[3]) THEN I(Sgn(f.z[3][1])) ELSE NaN]

xd_x_c(f) == [f EXCEPT !.x_c = Scale(f.sg, <<Div(f.x[1], f.h), Div(f.x[2], f.h), Zero>>)]

xd_y_c(f) == [f EXCEPT !.y_c = Scale(f.sg, <<Neg(Div(f.x[2], f.h)), Div(f.x[1], f.h), Zero>>)]

xd_y_cd(f) == [f EXCEPT !.y_cd = Scale(Neg(f.yawvel), f.x_c)]

xd_y_cdd(f) ==
    [f EXCEPT !.y_cdd = VSub(Scale(Neg(f.yawacc), f.x_c),
                             Scale(Mul(f.yawvel, f.yawvel), f.y_c))]

xd_n(f) == [f EXCEPT !.n = Norm(Cross(f.y_c, f.z))]

xd_xtd(f) == [f EXCEPT !.xtd = VAdd(Cross(f.y_cd, f.z), Cross(f.y_c, f.zdot))]

xd_xtdd(f) ==
    [f EXCEPT !.xtdd = VAdd(VAdd(Cross(f.y_cdd, f.z),
                                 Scale(I(2), Cross(f.y_cd, f.zdot))),
                            Cross(f.y_c, f.zddot))]

xd_nd(f) == [f EXCEPT !.nd = Dot(f.x, f.xtd)]

xd_xdot(f) == [f EXCEPT !.xdot = VDiv(VSub(f.xtd, Scale(f.nd, f.x)), f.n)]

xd_ndd(f) == [f EXCEPT !.ndd = Add(Dot(f.x, f.xtdd), Mul(f.n, Dot(f.xdot, f.xdot)))]

xd_xddot(f) ==
    [f EXCEPT !.xddot = VDiv(VSub(VSub(f.xtdd, Scale(f.ndd, f.x)),
                                  Scale(Mul(I(2), f.nd), f.xdot)),
                             f.n)]

get_xdot_xddot(yawvel, yawacc, x, z, zdot, zddot) ==
    xd_xddot(xd_ndd(xd_xdot(xd_nd(xd_xtdd(xd_xtd(xd_n(xd_y_cdd(xd_y_cd(
    xd_y_c(xd_x_c(xd_sg(xd_h(xd_frame(yawvel, yawacc, x, z, zdot, zddot))))))))))))))

\* The Learner collaborator.  Two learners: the zero-valued one, and one whose
\* estimate and sensitivities depend on the control it is queried with.
LearnerKinds == {"zero", "half"}

testpoint(kind, t, state, control) ==
    IF kind = "zero" THEN VZero ELSE Scale(Q(1, 2), control)

dpos(kind, t, state, control) ==
    IF kind = "zero" THEN MZero
    ELSE <<Scale(control[3], e1), Scale(control[3], e2), Scale(control[3], e3)>>

dvel(kind, t, state, control) ==
    IF kind = "zero" THEN MZero
    ELSE <<Scale(control[1], e1), Scale(control[3], e2), Scale(control[3], e3)>>

\* ControllerLearnAccel.add_datapoint: the learner's dataset gains the
\* datapoint.
add_datapoint(data, t, state, control) ==
    Append(data, [t |-> t, state |-> state, control |-> control])

---------------------------------------------------------------------------
(* Construction, src/cascaded.py:44-60 and 121-138                          *)

KposGain == 6

KvelGain == 4

KrotGain == 120

KangGain == 16

KrotYawGain == 30

KangYawGain == 10

CascadedController_init(model, metric, policy) ==
    [ class      |-> "CascadedController",
      Kpos       |-> Diag(KposGain, KposGain, KposGain),
      Kvel       |-> Diag(KvelGain, KvelGain, KvelGain),
      Krot       |-> Diag(KrotGain, KrotGain, KrotYawGain),
      Kang       |-> Diag(KangGain, KangGain, KangYawGain),
      gvec       |-> <<Zero, Zero, Neg(model.g)>>,
      rot_metric |-> metric,
      u_f        |-> policy,
      model      |-> model ]

CascadedControllerLearnAccel_init(model, kind, metric, policy) ==
    [ class         |-> "CascadedControllerLearnAccel",
      Kpos          |-> Diag(KposGain, KposGain, KposGain),
      Kvel          |-> Diag(KvelGain, KvelGain, KvelGain),
      Krot          |-> Diag(KrotGain, KrotGain, KrotYawGain),
      Kang          |-> Diag(KangGain, KangGain, KangYawGain),
      gvec          |-> <<Zero, Zero, Neg(model.g)>>,
      rot_metric    |-> metric,
      u_f           |-> policy,
      model         |-> model,
      accel_learner |-> kind ]

---------------------------------------------------------------------------
(* A response call.  Each method is a straight line of assignments.  e is   *)
(* the frame of the call: the objects it can reach (self, self.ref, the     *)
(* state passed in, the learner's dataset), its local variables, the calls  *)
(* it has made to its collaborators so far (events, in program order) and   *)
(* what it ends with (exc, ret).  Each operator below is one line of the    *)
(* method and is named after the variable the line assigns.                 *)

Frame(self, rf, t, state, data) ==
    [ self |-> self, ref |-> rf, t |-> t, state |-> state, data |-> data,
      events |-> <<>>, exc |-> "none", ret |-> Unset,
      posref |-> Unset, velref |-> Unset, accref |-> Unset, jerkref |-> Unset,
      snapref |-> Unset, pos_error |-> Unset, vel_error |-> Unset,
      accel_des |-> Unset, control_for_learner |-> Unset, acc_error |-> Unset,
      dpos |-> Unset, dvel |-> Unset, aed1 |-> Unset, aed2 |-> Unset,
      jerkdes |-> Unset, snapdes |-> Unset, yawdes |-> Unset,
      yawveldes |-> Unset, yawaccdes |-> Unset, z_b |-> Unset, c2 |-> Unset,
      rot_des |-> Unset, x_b |-> Unset, y_b |-> Unset, u |-> Unset,
      udot |-> Unset, zdotdes |-> Unset, uddot |-> Unset, zddotdes |-> Unset,
      angveldesxy_w |-> Unset, angaccdesxy_w |-> Unset, xdot |-> Unset,
      xddot |-> Unset, omega_z_bdes |-> Unset, angveldesxy_bdes |-> Unset,
      angveldes_bdes |-> Unset, angveldes_w |-> Unset, alpha_cross_x |-> Unset,
      alpha_z_bdes |-> Unset, angaccdesxy_bdes |-> Unset,
      angaccdes_bdes |-> Unset, angveldes_b |-> Unset, angaccdes_b |-> Unset,
      rot_error |-> Unset, angaccel |-> Unset, bodyz_force |-> Unset,
      torque |-> Unset ]

\* One query of the reference: self.ref.<q>(t)
RefEv(rf, q, t) == [ev |-> "ref", q |-> q, t |-> t, ret |-> rf[q][t]]

RefQuantities == <<"pos", "vel", "acc", "jerk", "snap", "yaw", "yawvel", "yawacc">>

\* The right-hand side of lines 66 and 151
AccelDes(self, pos_error, vel_error, accref) ==
    VAdd(VSub(VSub(VNeg(MatVec(self.Kpos, pos_error)),
                   MatVec(self.Kvel, vel_error)),
              self.gvec),
         accref)

---------------------------------------------------------------------------
(* Lines 82-116 of CascadedController.response, which are lines 191-225 of  *)
(* CascadedControllerLearnAccel.response word for word.                     *)

\* Line 82 with a guard added: a zero thrust magnitude is refused
set_u_failfast(e) ==
    LET r == u_f(e.self.u_f, e.accel_des, e.state.rot)
    IN  IF ~r.ok THEN [e EXCEPT !.exc = r.exc]
        ELSE IF r.val = Zero THEN [e EXCEPT !.exc = "SingularConfigurationError"]
        ELSE [e EXCEPT !.u = r.val]

\* u = self.u_f(accel_des, state.rot); what the policy raises, the call raises
set_u(e) ==
    LET r == u_f(e.self.u_f, e.accel_des, e.state.rot)
    IN  IF r.ok THEN [e EXCEPT !.u = r.val] ELSE [e EXCEPT !.exc = r.exc]

set_udot(e) == [e EXCEPT !.udot = Dot(e.jerkdes, e.z_b)]

set_zdotdes(e) ==
    [e EXCEPT !.zdotdes = Scale(Recip(e.u), VSub(e.jerkdes, Scale(e.udot, e.z_b)))]

set_uddot(e) ==
    [e EXCEPT !.uddot = Add(Dot(e.snapdes, e.z_b), Mul(e.u, Dot(e.zdotdes, e.zdotdes)))]

set_zddotdes(e) ==
    [e EXCEPT !.zddotdes =
        Scale(Recip(e.u),
              VSub(VSub(e.snapdes, Scale(Mul(I(2), e.udot), e.zdotdes)),
                   Scale(e.uddot, e.z_b)))]

set_angveldesxy_w(e) == [e EXCEPT !.angveldesxy_w = Cross(e.z_b, e.zdotdes)]

set_angaccdesxy_w(e) ==
    [e EXCEPT !.angaccdesxy_w =
        Cross(e.z_b, VSub(e.zddotdes, Cross(e.angveldesxy_w, e.zdotdes)))]

set_xdot_xddot(e) ==
    LET f == get_xdot_xddot(e.yawveldes, e.yawaccdes, e.x_b, e.z_b, e.zdotdes, e.zddotdes)
    IN  [e EXCEPT !.xdot = f.xdot, !.xddot = f.xddot]

set_omega_z_bdes(e) == [e EXCEPT !.omega_z_bdes = Dot(e.xdot, e.y_b)]

set_angveldesxy_bdes(e) ==
    [e EXCEPT !.angveldesxy_bdes = RotApply(RotInv(e.rot_des), e.angveldesxy_w)]

set_angveldes_bdes(e) ==
    [e EXCEPT !.angveldes_bdes =
        <<e.angveldesxy_bdes[1], e.angveldesxy_bdes[2], e.omega_z_bdes>>]

set_angveldes_w(e) == [e EXCEPT !.angveldes_w = RotApply(e.rot_des, e.angveldes_bdes)]

set_alpha_cross_x(e) ==
    [e EXCEPT !.alpha_cross_x = VSub(e.xddot, Cross(e.angveldes_w, e.xdot))]

set_alpha_z_bdes(e) == [e EXCEPT !.alpha_z_bdes = Dot(e.alpha_cross_x, e.y_b)]

set_angaccdesxy_bdes(e) ==
    [e EXCEPT !.angaccdesxy_bdes = RotApply(RotInv(e.rot_des), e.angaccdesxy_w)]

set_angaccdes_bdes(e) ==
    [e EXCEPT !.angaccdes_bdes =
        <<e.angaccdesxy_bdes[1], e.angaccdesxy_bdes[2], e.alpha_z_bdes>>]

set_angveldes_b(e) ==
    [e EXCEPT !.angveldes_b = RotApply(RotInv(e.state.rot), e.angveldes_w)]

set_angaccdes_b(e) ==
    [e EXCEPT !.angaccdes_b =
        RotApply(RotInv(e.state.rot), RotApply(e.rot_des, e.angaccdes_bdes))]

set_rot_error(e) ==
    [e EXCEPT !.rot_error = rot_metric(e.self.rot_metric, e.state.rot, e.rot_des)]

set_angaccel(e) ==
    [e EXCEPT !.angaccel =
        VAdd(VSub(VNeg(MatVec(e.self.Krot, e.rot_error)),
                  MatVec(e.self.Kang, VSub(e.state.ang, e.angveldes_b))),
             e.angaccdes_b)]

\* Line 115 without the mass
set_bodyz_force_no_mass(e) == [e EXCEPT !.bodyz_force = e.u]

set_bodyz_force(e) == [e EXCEPT !.bodyz_force = Mul(e.self.model.mass, e.u)]

set_torque(e) ==
    [e EXCEPT !.torque = torque_from_aa(e.angaccel, e.self.model.I, e.state.ang)]

\* Lines 83-116 (192-225), run when line 82 (191) returned
after_u(e) ==
    IF e.exc # "none" THEN e
    ELSE set_torque(set_bodyz_force(set_angaccel(set_rot_error(
         set_angaccdes_b(set_angveldes_b(set_angaccdes_bdes(
         set_angaccdesxy_bdes(set_alpha_z_bdes(set_alpha_cross_x(
         set_angveldes_w(set_angveldes_bdes(set_angveldesxy_bdes(
         set_omega_z_bdes(set_xdot_xddot(set_angaccdesxy_w(
         set_angveldesxy_w(set_zddotdes(set_uddot(set_zdotdes(
         set_udot(e)))))))))))))))))))))

\* return self.out(bodyz_force, torque), lines 118 and 229
return_out(e) ==
    IF e.exc # "none" THEN e
    ELSE [e EXCEPT !.ret = out(e.bodyz_force, e.torque),
                   !.events = Append(@, [ev |-> "out", thrust |-> e.bodyz_force,
                                         torque |-> e.torque])]

\* What the caller sees of a call that has ended: the objects it could have
\* touched, the values it fed to the inversion, its events and its outcome
Result(e) ==
    [ self |-> e.self, state |-> e.state, ref |-> e.ref, data |-> e.data,
      fed |-> [accel_des |-> e.accel_des, jerkdes |-> e.jerkdes,
               snapdes |-> e.snapdes],
      events |-> e.events,
      outcome |-> IF e.exc = "none" THEN Ret(e.ret) ELSE Raise(e.exc) ]

---------------------------------------------------------------------------
(* CascadedController.response, src/cascaded.py:62-118                      *)

\* Line 64 computed in place, in the array state.pos
base_pos_error_inplace(e) ==
    [e EXCEPT !.state.pos = VSub(@, e.ref.pos[e.t]),
              !.pos_error = VSub(e.state.pos, e.ref.pos[e.t]),
              !.events = Append(@, RefEv(e.ref, "pos", e.t))]

base_pos_error(e) ==
    [e EXCEPT !.pos_error = VSub(e.state.pos, e.ref.pos[e.t]),
              !.events = Append(@, RefEv(e.ref, "pos", e.t))]

base_vel_error(e) ==
    [e EXCEPT !.vel_error = VSub(e.state.vel, e.ref.vel[e.t]),
              !.events = Append(@, RefEv(e.ref, "vel", e.t))]

base_accel_des(e) ==
    [e EXCEPT !.accel_des = AccelDes(e.self, e.pos_error, e.vel_error, e.ref.acc[e.t]),
              !.events = Append(@, RefEv(e.ref, "acc", e.t))]

\* Line 68 with the jerk of the first tick kept for every later call
base_jerkdes_cached(e) ==
    [e EXCEPT !.jerkdes = e.ref.jerk[0],
              !.events = Append(@, RefEv(e.ref, "jerk", 0))]

base_jerkdes(e) ==
    [e EXCEPT !.jerkdes = e.ref.jerk[e.t],
              !.events = Append(@, RefEv(e.ref, "jerk", e.t))]

base_snapdes(e) ==
    [e EXCEPT !.snapdes = e.ref.snap[e.t],
              !.events = Append(@, RefEv(e.ref, "snap", e.t))]

set_yawdes(e) ==
    [e EXCEPT !.yawdes = e.ref.yaw[e.t],
              !.events = Append(@, RefEv(e.ref, "yaw", e.t))]

set_yawveldes(e) ==
    [e EXCEPT !.yawveldes = e.ref.yawvel[e.t],
              !.events = Append(@, RefEv(e.ref, "yawvel", e.t))]

set_yawaccdes(e) ==
    [e EXCEPT !.yawaccdes = e.ref.yawacc[e.t],
              !.events = Append(@, RefEv(e.ref, "yawacc", e.t))]

set_z_b(e) == [e EXCEPT !.z_b = VDiv(e.accel_des, Norm(e.accel_des))]

base_rot_des(e) == [e EXCEPT !.rot_des = rot_from_z_yaw_zyx(e.z_b, e.yawdes)]

base_x_b(e) == [e EXCEPT !.x_b = RotApply(e.rot_des, e1)]

base_y_b(e) == [e EXCEPT !.y_b = RotApply(e.rot_des, e2)]

CascadedController_response(self, rf, t, state) ==
    Result(return_out(after_u(set_u(
        base_y_b(base_x_b(base_rot_des(set_z_b(
        set_yawaccdes(set_yawveldes(set_yawdes(
        base_snapdes(base_jerkdes(
        base_accel_des(base_vel_error(base_pos_error(
        Frame(self, rf, t, state, <<>>)))))))))))))))))

---------------------------------------------------------------------------
(* CascadedControllerLearnAccel.response, src/cascaded.py:140-229           *)
(* numpy arrays are objects: a local variable names an array, and an        *)
(* augmented assignment (-=, /=) changes the array for every name bound to  *)
(* it.  A frame field that holds a vector is the array created under that   *)
(* name; a name bound to an existing array holds the field of that array.   *)

learn_posref(e) ==
    [e EXCEPT !.posref = e.ref.pos[e.t],
              !.events = Append(@, RefEv(e.ref, "pos", e.t))]

learn_velref(e) ==
    [e EXCEPT !.velref = e.ref.vel[e.t],
              !.events = Append(@, RefEv(e.ref, "vel", e.t))]

learn_accref(e) ==
    [e EXCEPT !.accref = e.ref.acc[e.t],
              !.events = Append(@, RefEv(e.ref, "acc", e.t))]

learn_jerkref(e) ==
    [e EXCEPT !.jerkref = e.ref.jerk[e.t],
              !.events = Append(@, RefEv(e.ref, "jerk", e.t))]

learn_snapref(e) ==
    [e EXCEPT !.snapref = e.ref.snap[e.t],
              !.events = Append(@, RefEv(e.ref, "snap", e.t))]

learn_pos_error(e) == [e EXCEPT !.pos_error = VSub(e.state.pos, e.posref)]

learn_vel_error(e) == [e EXCEPT !.vel_error = VSub(e.state.vel, e.velref)]

\* Line 151: a new array, named accel_des
learn_accel_des(e) ==
    [e EXCEPT !.accel_des = AccelDes(e.self, e.pos_error, e.vel_error, e.accref)]

\* Line 154, control_for_learner = accel_des: a second name for the array
\* accel_des names, not a copy of it
set_control_for_learner(e) == [e EXCEPT !.control_for_learner = "accel_des"]

\* The array a name is bound to
Array(e, name) == e[name]

\* Line 157
set_acc_error(e) ==
    [e EXCEPT !.acc_error = testpoint(e.self.accel_learner, e.t, e.state,
                                      Array(e, e.control_for_learner)),
              !.events = Append(@, [ev |-> "testpoint", t |-> e.t, state |-> e.state,
                                    control |-> Array(e, e.control_for_learner),
                                    ret |-> testpoint(e.self.accel_learner, e.t, e.state,
                                                      Array(e, e.control_for_learner))])]

\* Line 158, accel_des -= acc_error: numpy subtracts in place
isub_accel_des(e) == [e EXCEPT !.accel_des = VSub(@, e.acc_error)]

\* Line 160
set_dpos(e) ==
    [e EXCEPT !.dpos = dpos(e.self.accel_learner, e.t, e.state,
                            Array(e, e.control_for_learner)),
              !.events = Append(@, [ev |-> "dpos", t |-> e.t, state |-> e.state,
                                    control |-> Array(e, e.control_for_learner),
                                    ret |-> dpos(e.self.accel_learner, e.t, e.state,
                                                 Array(e, e.control_for_learner))])]

\* Line 161
set_dvel(e) ==
    [e EXCEPT !.dvel = dvel(e.self.accel_learner, e.t, e.state,
                            Array(e, e.control_for_learner)),
              !.events = Append(@, [ev |-> "dvel", t |-> e.t, state |-> e.state,
                                    control |-> Array(e, e.control_for_learner),
                                    ret |-> dvel(e.self.accel_learner, e.t, e.state,
                                                 Array(e, e.control_for_learner))])]

\* Line 164 with the two maps exchanged
set_aed1_swapped(e) ==
    [e EXCEPT !.aed1 = VAdd(MatVec(e.dpos, e.accref), MatVec(e.dvel, e.velref))]

set_aed1(e) ==
    [e EXCEPT !.aed1 = VAdd(MatVec(e.dvel, e.accref), MatVec(e.dpos, e.velref))]

set_aed2(e) ==
    [e EXCEPT !.aed2 = VAdd(MatVec(e.dvel, e.jerkref), MatVec(e.dpos, e.accref))]

learn_jerkdes(e) == [e EXCEPT !.jerkdes = VSub(e.jerkref, e.aed1)]

learn_snapdes(e) == [e EXCEPT !.snapdes = VSub(e.snapref, e.aed2)]

set_c2(e) == [e EXCEPT !.c2 = YawRefZYX(e.yawdes)]

learn_x_b(e) == [e EXCEPT !.x_b = Cross(e.c2, e.z_b)]

\* Line 180, x_b /= np.linalg.norm(x_b)
idiv_x_b(e) == [e EXCEPT !.x_b = VDiv(@, Norm(@))]

\* Line 181 with the operands exchanged
learn_y_b_swapped(e) == [e EXCEPT !.y_b = Cross(e.x_b, e.z_b)]

learn_y_b(e) == [e EXCEPT !.y_b = Cross(e.z_b, e.x_b)]

learn_rot_des(e) == [e EXCEPT !.rot_des = from_matrix(<<e.x_b, e.y_b, e.z_b>>)]

\* Line 227 recording u where the thrust belongs
call_add_datapoint_u(e) ==
    IF e.exc # "none" THEN e
    ELSE [e EXCEPT !.data = add_datapoint(@, e.t, e.state, <<e.u, e.torque>>),
                   !.events = Append(@, [ev |-> "add_datapoint", t |-> e.t,
                                         state |-> e.state, thrust |-> e.u,
                                         torque |-> e.torque])]

\* Line 227: self.add_datapoint(t, state, (bodyz_force, torque))
call_add_datapoint(e) ==
    IF e.exc # "none" THEN e
    ELSE [e EXCEPT !.data = add_datapoint(@, e.t, e.state, <<e.bodyz_force, e.torque>>),
                   !.events = Append(@, [ev |-> "add_datapoint", t |-> e.t,
                                         state |-> e.state, thrust |-> e.bodyz_force,
                                         torque |-> e.torque])]

CascadedControllerLearnAccel_response(self, rf, t, state, data) ==
    Result(return_out(call_add_datapoint(after_u(set_u(
        learn_rot_des(learn_y_b(idiv_x_b(learn_x_b(set_c2(set_z_b(
        set_yawaccdes(set_yawveldes(set_yawdes(
        learn_snapdes(learn_jerkdes(set_aed2(set_aed1(
        set_dvel(set_dpos(isub_accel_des(set_acc_error(
        set_control_for_learner(learn_accel_des(
        learn_vel_error(learn_pos_error(
        learn_snapref(learn_jerkref(learn_accref(learn_velref(learn_posref(
        Frame(self, rf, t, state, data))))))))))))))))))))))))))))))))

---------------------------------------------------------------------------
(* The inputs the model draws from.                                        *)

MaxT == 1

MaxData == 2

Times == 0..MaxT

ModelSet == { [mass |-> I(2), g |-> I(10), I |-> Diag(1, 2, 3)] }

\* The angle k * pi/2
Quarter(k) ==
    CASE k % 4 = 0 -> [c |-> One, s |-> Zero]
      [] k % 4 = 1 -> [c |-> Zero, s |-> One]
      [] k % 4 = 2 -> [c |-> Neg(One), s |-> Zero]
      [] k % 4 = 3 -> [c |-> Zero, s |-> Neg(One)]

\* A reference resting at p with yaw 0
RefHover(p) ==
    [ pos    |-> [t \in Times |-> p],
      vel    |-> [t \in Times |-> VZero],
      acc    |-> [t \in Times |-> VZero],
      jerk   |-> [t \in Times |-> VZero],
      snap   |-> [t \in Times |-> VZero],
      yaw    |-> [t \in Times |-> Quarter(0)],
      yawvel |-> [t \in Times |-> Zero],
      yawacc |-> [t \in Times |-> Zero] ]

\* A reference that starts at hover and then accelerates sideways and turns
RefTilt ==
    [ pos    |-> [t \in Times |-> VZero],
      vel    |-> [t \in Times |-> V(0, t, 0)],
      acc    |-> [t \in Times |-> V(6 * t, -4 * t, -2 * t)],
      jerk   |-> [t \in Times |-> V(t, 0, 0)],
      snap   |-> [t \in Times |-> V(0, t, 0)],
      yaw    |-> [t \in Times |-> Quarter(t)],
      yawvel |-> [t \in Times |-> I(t)],
      yawacc |-> [t \in Times |-> One] ]

RefSet == {RefHover(VZero), RefHover(V(1, 2, 3)), RefTilt}

RotX90 == <<e1, e3, V(0, -1, 0)>>

RotZ90 == <<e2, V(-1, 0, 0), e3>>

St(pos, vel, rot, ang) == [pos |-> pos, vel |-> vel, rot |-> rot, ang |-> ang]

StateSet ==
    { St(VZero, VZero, RotIdentity, VZero),
      St(V(1, 2, 3), VZero, RotIdentity, VZero),
      St(V(0, 0, 1), VZero, RotZ90, V(0, 0, 1)),
      St(VZero, VZero, RotX90, VZero),
      St(VZero, <<Zero, Zero, Q(5, 2)>>, RotIdentity, VZero) }

\* The inputs on which every square root the call takes is rational
ExactFrame(accel_des, yaw) ==
    /\ ExactNorm(accel_des)
    /\ ExactNorm(Cross(YawRefZYX(yaw), normalized(accel_des)))
    /\ ExactNorm(<<normalized(Cross(YawRefZYX(yaw), normalized(accel_des)))[1],
                   normalized(Cross(YawRefZYX(yaw), normalized(accel_des)))[2],
                   Zero>>)

\* The position-loop output of a call
LoopOutput(self, rf, t, state) ==
    AccelDes(self, VSub(state.pos, rf.pos[t]), VSub(state.vel, rf.vel[t]), rf.acc[t])

---------------------------------------------------------------------------
(* The controllers in use: construction, then any sequence of calls.        *)

NoCall == [op |-> "none"]

Classes == {"CascadedController", "CascadedControllerLearnAccel"}

\* A program constructs one controller, of either class, and gives it a
\* reference; the learner exists beside it.
Init ==
    \E model \in ModelSet, policy \in ThrustPolicies, kind \in LearnerKinds,
       rf \in RefSet, class \in Classes :
        /\ ctl = IF class = "CascadedController"
                 THEN CascadedController_init(model, "euler_zyx", policy)
                 ELSE CascadedControllerLearnAccel_init(model, kind, "euler_zyx", policy)
        /\ ref = rf
        /\ learner = [kind |-> kind, data |-> <<>>]
        /\ call = NoCall

\* The call as the caller sees it when it has ended
CallRecord(op, t, state, r) ==
    [ op |-> op, t |-> t, state |-> state, state_after |-> r.state,
      fed |-> r.fed, events |-> r.events, outcome |-> r.outcome ]

RespondEnds(t, state, r) ==
    /\ ctl' = r.self
    /\ ref' = r.ref
    /\ call' = CallRecord("base", t, state, r)
    /\ UNCHANGED learner

Respond ==
    \E t \in Times, state \in StateSet :
        /\ ctl.class = "CascadedController"
        /\ ExactFrame(LoopOutput(ctl, ref, t, state), ref.yaw[t])
        /\ RespondEnds(t, state, CascadedController_response(ctl, ref, t, state))

RespondLearnEnds(t, state, r) ==
    /\ ctl' = r.self
    /\ ref' = r.ref
    /\ learner' = [learner EXCEPT !.data = r.data]
    /\ call' = CallRecord("learn", t, state, r)

RespondLearn ==
    \E t \in Times, state \in StateSet :
        /\ ctl.class = "CascadedControllerLearnAccel"
        /\ Len(learner.data) < MaxData
        /\ ExactFrame(LoopOutput(ctl, ref, t, state), ref.yaw[t])
        /\ ExactFrame(VSub(LoopOutput(ctl, ref, t, state),
                           testpoint(ctl.accel_learner, t, state,
                                     LoopOutput(ctl, ref, t, state))),
                      ref.yaw[t])
        /\ RespondLearnEnds(t, state,
               CascadedControllerLearnAccel_response(ctl, ref, t, state, learner.data))

Next == Respond \/ RespondLearn

Spec == Init /\ [][Next]_vars

---------------------------------------------------------------------------
(* The module's functions in use on their own: a client makes one call of   *)
(* a rotation builder or of a thrust policy.                                *)

MaxComp == 4

Comps == (0 - MaxComp)..MaxComp

Vectors == { V(a, b, c) : a \in Comps, b \in Comps, c \in Comps }

\* The yaw angles k * pi/2, and the angle whose cosine is 3/5
Yaws == { Quarter(k) : k \in 0..3 } \cup { [c |-> Q(3, 5), s |-> Q(4, 5)] }

\* The rotations a thrust policy is called with
Rots == { RotIdentity, RotX90, RotZ90,
          rot_from_z_yaw_zyx(V(3, 0, 4), Quarter(0)),
          rot_from_z_yaw_zxy(V(0, 3, 4), Quarter(0)) }

NoObject == "none"

InitHelpers ==
    /\ ctl = NoObject
    /\ ref = NoObject
    /\ learner = NoObject
    /\ call = NoCall

CallRotZYX ==
    \E z \in Vectors, yaw \in Yaws :
        /\ call = NoCall
        /\ ExactNorm(z)
        /\ ExactNorm(Cross(YawRefZYX(yaw), normalized(z)))
        /\ call' = [op |-> "rot_from_z_yaw_zyx", z |-> z, yaw |-> yaw,
                    ret |-> rot_from_z_yaw_zyx(z, yaw)]
        /\ UNCHANGED <<ctl, ref, learner>>

CallRotZXY ==
    \E z \in Vectors, yaw \in Yaws :
        /\ call = NoCall
        /\ ExactNorm(z)
        /\ ExactNorm(Cross(normalized(z), YawRefZXY(yaw)))
        /\ call' = [op |-> "rot_from_z_yaw_zxy", z |-> z, yaw |-> yaw,
                    ret |-> rot_from_z_yaw_zxy(z, yaw)]
        /\ UNCHANGED <<ctl, ref, learner>>

CallThrust ==
    \E policy \in ThrustPolicies, accel_des \in Vectors, rot \in Rots :
        /\ call = NoCall
        /\ ExactNorm(accel_des)
        /\ call' = [op |-> "u_f", policy |-> policy, accel_des |-> accel_des,
                    rot |-> rot, outcome |-> u_f(policy, accel_des, rot)]
        /\ UNCHANGED <<ctl, ref, learner>>

NextHelpers == CallRotZYX \/ CallRotZXY \/ CallThrust

SpecHelpers == InitHelpers /\ [][NextHelpers]_vars

---------------------------------------------------------------------------
(* Properties.                                                             *)

ResponseCall == call.op \in {"base", "learn"}

\* The events of the last call that are calls of the collaborator operation k
EventsOf(k) == SelectSeq(call.events, LAMBDA ev : ev.ev = k)

\* The position-loop output of the last call
CallLoopOutput == LoopOutput(ctl, ref, call.t, call.state)

NonFinite(v) == \A i \in 1..3 : ~IsFinite(v[i])

IsRightHandedFrame(m) ==
    /\ \A j \in 1..3 : Dot(m[j], m[j]) = One
    /\ Dot(m[1], m[2]) = Zero
    /\ Dot(m[1], m[3]) = Zero
    /\ Dot(m[2], m[3]) = Zero
    /\ Det(m) = One

RotCall == call.op \in {"rot_from_z_yaw_zyx", "rot_from_z_yaw_zxy"}

\* The horizontal yaw-reference axis of the rotation builder called
CallYawRef ==
    IF call.op = "rot_from_z_yaw_zyx" THEN YawRefZYX(call.yaw) ELSE YawRefZXY(call.yaw)

\* C1, as stated: for every non-zero z and every yaw, z parallel to the
\* yaw-reference axis included, both rotation builders return an orthonormal
\* right-handed frame whose third column is normalize(z).
C1_FrameForEveryNonzeroZ ==
    (RotCall /\ call.z # VZero) =>
        /\ IsRightHandedFrame(call.ret)
        /\ call.ret[3] = normalized(call.z)

\* C1, amended: for every non-zero z that is not parallel to the
\* yaw-reference axis of the builder called, the builder returns an
\* orthonormal right-handed frame whose third column is normalize(z).
C1_FrameUnlessParallel ==
    (RotCall /\ call.z # VZero /\ Cross(CallYawRef, call.z) # VZero) =>
        /\ IsRightHandedFrame(call.ret)
        /\ call.ret[3] = normalized(call.z)

\* C1, reached: a tilted z, a quarter-turn yaw, and the frame built from them
C1_Witness ==
    /\ call.op = "rot_from_z_yaw_zyx"
    /\ call.z = V(3, 0, 4)
    /\ call.yaw = Quarter(1)
    /\ call.ret = <<e2, <<Q(-4, 5), Zero, Q(3, 5)>>, <<Q(3, 5), Zero, Q(4, 5)>>>>

\* C2: every call of CascadedControllerLearnAccel.response that returns has
\* called add_datapoint exactly once, as its last step before the command is
\* packaged and returned, with the t and state it was passed and the
\* (thrust, torque) it returns; the learner's dataset ends with that datapoint.
C2_DatapointOncePerCall ==
    (call.op = "learn" /\ call.outcome.ok) =>
        /\ Len(EventsOf("add_datapoint")) = 1
        /\ Len(call.events) >= 2
        /\ call.events[Len(call.events)].ev = "out"
        /\ call.events[Len(call.events) - 1].ev = "add_datapoint"
        /\ EventsOf("add_datapoint")[1].t = call.t
        /\ EventsOf("add_datapoint")[1].state = call.state
        /\ EventsOf("add_datapoint")[1].thrust = call.outcome.val.thrust
        /\ EventsOf("add_datapoint")[1].torque = call.outcome.val.torque
        /\ Len(learner.data) >= 1
        /\ learner.data[Len(learner.data)] =
               [ t |-> call.t, state |-> call.state,
                 control |-> <<call.outcome.val.thrust, call.outcome.val.torque>> ]

\* C2, reached: a learning call on a moving reference that returned a finite
\* command and left one datapoint
C2_Witness ==
    /\ call.op = "learn"
    /\ call.outcome.ok
    /\ call.t = 1
    /\ ref = RefTilt
    /\ IsFinite(call.outcome.val.thrust)
    /\ Len(learner.data) = 1

\* C3: with a zero-valued learner, CascadedControllerLearnAccel.response ends
\* as CascadedController.response does on a controller built from the same
\* model, rotation metric and thrust policy, with the same reference, t and
\* state: the same command, or the same exception.
C3_ZeroLearnerMatchesBase ==
    (call.op = "learn" /\ ctl.accel_learner = "zero") =>
        call.outcome =
            CascadedController_response(
                CascadedController_init(ctl.model, ctl.rot_metric, ctl.u_f),
                ref, call.t, call.state).outcome

\* C3, reached: a zero-learner call off hover that returned a finite,
\* non-zero torque
C3_Witness ==
    /\ call.op = "learn"
    /\ ctl.accel_learner = "zero"
    /\ call.outcome.ok
    /\ call.outcome.val.torque # VZero
    /\ VFinite(call.outcome.val.torque)

\* accel_des is a positive multiple of the z axis of rot
Aligned(accel_des, rot) ==
    /\ Cross(accel_des, RotApply(rot, e3)) = VZero
    /\ Dot(accel_des, RotApply(rot, e3))[1] > 0

\* C4, as stated: when accel_des is a positive multiple of the z axis of rot,
\* each of the three thrust policies returns a value, the three values are
\* equal, and thrust_maintain_z returns
\* (accel_des . e3) / ((rot applied to e3) . e3).
C4_PoliciesReturnAndAgree ==
    (call.op = "u_f" /\ Aligned(call.accel_des, call.rot)) =>
        /\ call.outcome.ok
        /\ call.outcome.val = thrust_norm_accel(call.accel_des, call.rot).val
        /\ call.outcome.val = thrust_project_z(call.accel_des, call.rot).val
        /\ call.policy = "thrust_maintain_z" =>
               call.outcome.val = Div(Dot(call.accel_des, e3),
                                      Dot(RotApply(call.rot, e3), e3))

\* The last call is a CascadedController.response call at hover equilibrium
AtHover ==
    /\ call.op = "base"
    /\ ctl.u_f = "thrust_project_z"
    /\ call.state.rot = RotIdentity
    /\ call.state.vel = VZero
    /\ call.state.ang = VZero
    /\ ref.pos[call.t] = call.state.pos
    /\ ref.vel[call.t] = VZero
    /\ ref.acc[call.t] = VZero
    /\ ref.jerk[call.t] = VZero
    /\ ref.snap[call.t] = VZero
    /\ ref.yaw[call.t] = Quarter(0)
    /\ ref.yawvel[call.t] = Zero
    /\ ref.yawacc[call.t] = Zero

\* C5: at hover equilibrium (identity orientation, zero velocity and angular
\* rate, reference position equal to the state's, every other reference
\* quantity zero) CascadedController.response with the default thrust policy
\* returns thrust model.mass * model.g and zero torque.
C5_HoverEquilibrium ==
    AtHover =>
        call.outcome = Ret(out(Mul(ctl.model.mass, ctl.model.g), VZero))

\* C5, reached: a hover call away from the origin, mass 2 and g 10
C5_Witness ==
    /\ AtHover
    /\ call.state.pos = V(1, 2, 3)
    /\ call.outcome.ok
    /\ call.outcome.val.thrust = I(20)

\* C6: a CascadedController.response call changes nothing: the controller
\* keeps every attribute, the gains being Kpos = 6 I, Kvel = 4 I,
\* Krot = diag(120, 120, 30), Kang = diag(16, 16, 10); the state and the
\* reference passed in end as they began; and a call made with the (t, state)
\* of the call before it ends as that call did.
C6_NoSideEffects ==
    [][ call'.op = "base" =>
          /\ ctl' = ctl
          /\ ctl'.Kpos = Diag(6, 6, 6)
          /\ ctl'.Kvel = Diag(4, 4, 4)
          /\ ctl'.Krot = Diag(120, 120, 30)
          /\ ctl'.Kang = Diag(16, 16, 10)
          /\ ctl'.gvec = <<Zero, Zero, Neg(ctl.model.g)>>
          /\ ref' = ref
          /\ call'.state_after = call'.state
          /\ (call.op = "base" /\ call'.t = call.t /\ call'.state = call.state) =>
                 call'.outcome = call.outcome ]_vars

\* C6, reached: a call with a position error on a moving reference has
\* ended, and the state it was passed is as it was
C6_Witness ==
    /\ call.op = "base"
    /\ ref = RefTilt
    /\ call.state.pos = V(0, 0, 1)
    /\ call.state_after = call.state
    /\ call.outcome.ok
    /\ ctl.Krot = Diag(120, 120, 30)

\* The reference queries of the last call
RefEvents == EventsOf("ref")

\* Every quantity the reference offers is queried exactly once, at the t
\* passed to response, and the value used is the reference's value at t
EachQuantityOnceAtT ==
    /\ \A i \in 1..Len(RefQuantities) :
           Len(SelectSeq(RefEvents, LAMBDA ev : ev.q = RefQuantities[i])) = 1
    /\ \A j \in 1..Len(RefEvents) :
           /\ RefEvents[j].t = call.t
           /\ RefEvents[j].ret = ref[RefEvents[j].q][call.t]

\* C7, as stated: a response call of either controller queries the reference
\* exactly once per quantity, at the t it was passed, for nine quantities.
C7_NineQueries ==
    ResponseCall => (EachQuantityOnceAtT /\ Len(RefEvents) = 9)

\* C7, amended: a response call of either controller queries the reference
\* exactly once per quantity, at the t it was passed, for the eight
\* quantities position, velocity, acceleration, jerk, snap, yaw, yaw rate and
\* yaw acceleration, and uses the values the reference gives at that t.
C7_EightQueries ==
    ResponseCall => (EachQuantityOnceAtT /\ Len(RefEvents) = 8)

\* C7, reached: a learning call at t = 1 on the reference whose values
\* change with t
C7_Witness ==
    /\ call.op = "learn"
    /\ call.t = 1
    /\ ref = RefTilt
    /\ Len(RefEvents) = 8
    /\ RefEvents[8].q = "yawacc"

\* C8: in CascadedControllerLearnAccel.response, accel_des is the
\* position-loop output minus testpoint(t, state, position-loop output);
\* jerkdes is ref.jerk(t) - (dvel . ref.acc(t) + dpos . ref.vel(t)); snapdes
\* is ref.snap(t) - (dvel . ref.jerk(t) + dpos . ref.acc(t)); dpos and dvel
\* being what the learner returned in this call.
C8_LearnedCorrections ==
    call.op = "learn" =>
        /\ Len(EventsOf("testpoint")) = 1
        /\ Len(EventsOf("dpos")) = 1
        /\ Len(EventsOf("dvel")) = 1
        /\ EventsOf("testpoint")[1].control = CallLoopOutput
        /\ EventsOf("testpoint")[1].t = call.t
        /\ EventsOf("testpoint")[1].state = call.state
        /\ call.fed.accel_des = VSub(CallLoopOutput, EventsOf("testpoint")[1].ret)
        /\ call.fed.jerkdes =
               VSub(ref.jerk[call.t],
                    VAdd(MatVec(EventsOf("dvel")[1].ret, ref.acc[call.t]),
                         MatVec(EventsOf("dpos")[1].ret, ref.vel[call.t])))
        /\ call.fed.snapdes =
               VSub(ref.snap[call.t],
                    VAdd(MatVec(EventsOf("dvel")[1].ret, ref.jerk[call.t]),
                         MatVec(EventsOf("dpos")[1].ret, ref.acc[call.t])))

\* C8, reached: a call in which the learner's estimate and both its maps
\* are non-zero and every reference derivative is non-zero
C8_Witness ==
    /\ call.op = "learn"
    /\ ref = RefTilt
    /\ call.t = 1
    /\ EventsOf("testpoint")[1].ret # VZero
    /\ EventsOf("dpos")[1].ret # MZero
    /\ EventsOf("dvel")[1].ret # EventsOf("dpos")[1].ret
    /\ call.fed.jerkdes # ref.jerk[call.t]
    /\ call.fed.snapdes # ref.snap[call.t]

\* The last call was made on a singular input: the desired specific force
\* has zero norm, or the thrust policy returned u = 0
Singular ==
    /\ ResponseCall
    /\ \/ call.fed.accel_des = VZero
       \/ /\ u_f(ctl.u_f, call.fed.accel_des, call.state.rot).ok
          /\ u_f(ctl.u_f, call.fed.accel_des, call.state.rot).val = Zero

\* C9, as stated: on a singular input response raises nothing and returns a
\* command whose values, thrust and torque, are non-finite.
C9_SingularReturnsNonFinite ==
    Singular =>
        /\ call.outcome.ok
        /\ ~IsFinite(call.outcome.val.thrust)
        /\ NonFinite(call.outcome.val.torque)

\* C9, amended: on a singular input, under thrust_project_z and
\* thrust_norm_accel response raises nothing and returns a complete command
\* whose torque is non-finite in every component and whose thrust is the
\* finite mass * u = 0, the command being the last thing the call produces;
\* under thrust_maintain_z the call raises NameError, and has then produced
\* neither a datapoint nor a command.
C9_SingularPropagates ==
    Singular =>
        IF ctl.u_f = "thrust_maintain_z"
        THEN /\ call.outcome = Raise("NameError")
             /\ EventsOf("add_datapoint") = <<>>
             /\ EventsOf("out") = <<>>
        ELSE /\ call.outcome.ok
             /\ call.outcome.val.thrust = Zero
             /\ NonFinite(call.outcome.val.torque)
             /\ Len(EventsOf("out")) = 1
             /\ call.events[Len(call.events)].ev = "out"

\* C9, reached: thrust_project_z with the body z axis perpendicular to
\* accel_des
C9_Witness ==
    /\ call.op = "base"
    /\ ctl.u_f = "thrust_project_z"
    /\ call.state.rot = RotX90
    /\ call.fed.accel_des = V(0, 0, 10)
    /\ call.outcome.ok
    /\ call.outcome.val.torque = VNaN

\* C10, as stated: in one CascadedControllerLearnAccel.response call
\* testpoint, dpos and dvel are queried with the same control value, the
\* position-loop output as it was before the learner's estimate was
\* subtracted from accel_des.
C10_SameControlForLearner ==
    call.op = "learn" =>
        /\ EventsOf("testpoint")[1].control = CallLoopOutput
        /\ EventsOf("dpos")[1].control = CallLoopOutput
        /\ EventsOf("dvel")[1].control = CallLoopOutput

=============================================================================
